---- MODULE Spec2Model ----
(***************************************************************************)
(* The in-memory user registry of the Go API server (userCache, nextID,    *)
(* cacheMutex and the three handlers handleCreateUser, handleGetUser and   *)
(* handleDeleteUser), run by concurrent request goroutines; and the snake  *)
(* game (Game, Update, updateSnake, isBadCollision, spawnFood, resetGame), *)
(* run frame by frame.  The two programs share no state.                   *)
(***************************************************************************)
EXTENDS Integers, Sequences, FiniteSets, TLC

\* ------------------------------------------------------------------ bounds
\* number of goroutines that serve requests at the same time
NumWorkers == 2
\* number of requests the server accepts in one run
MaxRequests == 3

\* requests served in the runs checked under fair scheduling
FairRequests == 2

\* number of move ticks of the snake game in one run
MaxTicks == 13
\* number of direction changes of the snake in one run
MaxTurns == 2

Workers == 1..NumWorkers

\* ------------------------------------------------------- program constants
StatusOK == 200
StatusCreated == 201
StatusNoContent == 204
StatusBadRequest == 400
StatusNotFound == 404
StatusInternalServerError == 500

\* --------------------------------------------------------------- inputs
\* Text is a sequence of one-character strings.
Digits == <<"0", "1", "2", "3", "4", "5", "6", "7", "8", "9">>

DigitVal(c) == (CHOOSE i \in 1..10 : Digits[i] = c) - 1

IsDigit(c) == \E i \in 1..10 : Digits[i] = c

\* the {id} path segments that requests carry
PathIds == { <<"1">>, <<"0", "2">>, <<"-", "1">>, <<"x">> }

\* the request bodies of POST /users: a JSON text is represented by its
\* syntax (well formed or not) and the value it holds under the key "name"
NameAbsent == [t |-> "absent", v |-> ""]

NameStr(s) == [t |-> "string", v |-> s]

Bodies == { [wf |-> TRUE, name |-> NameStr("Ada")],
            [wf |-> TRUE, name |-> NameStr("Bob")],
            [wf |-> TRUE, name |-> NameAbsent],
            [wf |-> FALSE, name |-> NameAbsent] }

\* ------------------------------------------------------- pure functions
\* type User struct { Name string `json:"name"` }
User(n) == [Name |-> n]

\* json.NewDecoder(r.Body).Decode(&user): a syntax error is an error; a
\* missing "name" key leaves the zero value
Decode(body) ==
    IF ~body.wf THEN [err |-> TRUE, user |-> User("")]
    ELSE IF body.name.t = "absent" THEN [err |-> FALSE, user |-> User("")]
    ELSE [err |-> FALSE, user |-> User(body.name.v)]

RECURSIVE DigitsValue(_)
DigitsValue(s) ==
    IF s = <<>> THEN 0
    ELSE DigitsValue(SubSeq(s, 1, Len(s) - 1)) * 10 + DigitVal(s[Len(s)])

\* strconv.Atoi: an optional sign, then one or more decimal digits (the range
\* error of Atoi needs 19 digits or more; the path segments here are shorter)
Atoi(s) ==
    LET signed == s # <<>> /\ s[1] \in {"+", "-"}
        ds == IF signed THEN Tail(s) ELSE s
        wellFormed == ds # <<>> /\ \A i \in 1..Len(ds) : IsDigit(ds[i])
        mag == IF wellFormed THEN DigitsValue(ds) ELSE 0
        val == IF signed /\ s[1] = "-" THEN 0 - mag ELSE mag
    IN  IF wellFormed THEN [err |-> FALSE, id |-> val]
        ELSE [err |-> TRUE, id |-> 0]

RECURSIVE NatDigits(_)
NatDigits(n) ==
    IF n < 10 THEN <<Digits[n + 1]>>
    ELSE NatDigits(n \div 10) \o <<Digits[(n % 10) + 1]>>

\* the %d verb of fmt: the decimal digits of an int, with a minus sign
FormatInt(n) == IF n < 0 THEN <<"-">> \o NatDigits(0 - n) ELSE NatDigits(n)

\* json.Marshal(user): encoding a struct with one string field cannot fail
Marshal(user) == [err |-> FALSE, j |-> <<"{\"name\":\"", user.Name, "\"}">>]


\* the map operations of the handlers
MapKeys(m) == DOMAIN m

\* a store under the key after the one asked for
MapPutShifted(m, k, v) ==
    [x \in (DOMAIN m) \cup {k + 1} |-> IF x = k + 1 THEN v ELSE m[x]]

MapPut(m, k, v) == [x \in (DOMAIN m) \cup {k} |-> IF x = k THEN v ELSE m[x]]

\* a delete that also removes every lower key
MapDeleteUpTo(m, k) == [x \in {y \in DOMAIN m : y > k} |-> m[x]]

\* a delete that leaves the entry in the map
MapDeleteNone(m, k) == m

MapDelete(m, k) == [x \in (DOMAIN m) \ {k} |-> m[x]]

\* a lookup that reports the zero value of a missing key as found
MapGetAlways(m, k) ==
    IF k \in DOMAIN m THEN [user |-> m[k], ok |-> TRUE]
    ELSE [user |-> User(""), ok |-> TRUE]

\* user, ok := userCache[id]
MapGet(m, k) ==
    IF k \in DOMAIN m THEN [user |-> m[k], ok |-> TRUE]
    ELSE [user |-> User(""), ok |-> FALSE]

\* ---------------------------------------------------------------- state
VARIABLES
    userCache,   \* var userCache = make(map[int]User)
    nextID,      \* var nextID = 1
    cacheMutex,  \* var cacheMutex sync.RWMutex
    pc,          \* where the handler run by each worker stands
    req,         \* the request each worker serves
    loc,         \* the handler's local variables
    resp,        \* what the handler wrote to its http.ResponseWriter
    obs,         \* history: what was true when the request started / read
    nreq,        \* history: number of requests accepted so far
    lockSeq,     \* history: how many creations have taken the lock
    issued,      \* history: the identifiers assigned, in assignment order
    returned,    \* history: the creations that were answered 201
    removedIds,  \* history: the keys a delete took out of the map
    delDone,     \* history: the deletes that were answered 204
    lastDelete   \* history: the key of the latest delete, if nothing was
                 \* written to the map or the counter since

regVars == <<userCache, nextID, cacheMutex, pc, req, loc, resp, obs,
             nreq, lockSeq, issued, returned, removedIds, delDone,
             lastDelete>>

shared == <<userCache, nextID>>

hist == <<lockSeq, issued, returned, removedIds, delDone, lastDelete>>

NoReq == [method |-> "", body |-> [wf |-> FALSE, name |-> NameAbsent],
          idStr |-> <<>>]

NoLoc == [user |-> User(""), userID |-> 0, id |-> 0, ok |-> FALSE, j |-> <<>>]

NoResp == [status |-> 0, body |-> <<>>]

NoObs == [locked |-> FALSE, lockPos |-> 0, overlap |-> FALSE,
          retAtStart |-> {}, delAtStart |-> {}, removedAtRead |-> FALSE,
          belowNext |-> FALSE, existed |-> FALSE, repeat |-> FALSE,
          present |-> FALSE, passed |-> FALSE]

\* ----------------------------------------------------- sync.RWMutex
\* writer: the goroutine that holds the lock for writing (0: none);
\* pending: the goroutine whose Lock() is waiting for the readers to leave;
\* readers: the goroutines that hold the lock for reading
MutexFree == [writer |-> 0, pending |-> 0, readers |-> {}]

\* Lock(), first half: the writer excludes other writers and announces itself
CanLock(m) == m.writer = 0 /\ m.pending = 0

\* Lock(), second half: the announced writer enters once the readers have left
CanEnter(m, p) == m.pending = p /\ m.readers = {}

\* an RLock() that does not wait for the writer
CanRLockAlways(m) == TRUE

\* the RLock() of a lock that admits one holder at a time
CanRLockExclusive(m) == m.writer = 0 /\ m.pending = 0 /\ m.readers = {}

\* RLock(): blocks while a writer holds the lock or has announced itself
CanRLock(m) == m.writer = 0 /\ m.pending = 0

\* http.Error(w, msg, code) and w.WriteHeader(code) followed by a write
Reply(code, text) == [status |-> code, body |-> text]

\* ============================================================ snake game
\* Screen dimensions in pixels and the size of a grid cell
screenWidth == 640
screenHeight == 480
gridSize == 20

\* the grid is screenWidth/gridSize by screenHeight/gridSize cells
gridCols == screenWidth \div gridSize
gridRows == screenHeight \div gridSize

\* type Point struct { x, y int }
Point(px, py) == [x |-> px, y |-> py]

\* Direction vectors
dirUp == Point(0, -1)
dirDown == Point(0, 1)
dirRight == Point(1, 0)
dirLeft == Point(-1, 0)

\* the zero value of Point
ZeroPoint == Point(0, 0)

\* the key combinations that ebiten.IsKeyPressed reports during one frame
KeySets ==
    { {}, {"W"}, {"S"}, {"A"}, {"D"}, {"W", "S"},
      {"Enter"}, {"Space"}, {"Escape"} }

\* the values that rand.IntN(screenWidth / gridSize) and
\* rand.IntN(screenHeight / gridSize) return in the runs that are checked
FoodXs == {gridCols \div 2 + 1,
           gridCols \div 2 + 2}

FoodYs == {gridRows \div 2,
           gridRows \div 2 - 1}

\* a self-collision test that leaves the tail out
isBadCollisionNoTail(p, snake) ==
    \/ p.x < 0 \/ p.y < 0
    \/ p.x >= gridCols \/ p.y >= gridRows
    \/ \E i \in 1..(Len(snake) - 1) : snake[i] = p

\* func (g *Game) isBadCollision(p Point, snake []Point) bool
isBadCollision(p, snake) ==
    \/ p.x < 0 \/ p.y < 0
    \/ p.x >= gridCols \/ p.y >= gridRows
    \/ \E i \in 1..Len(snake) : snake[i] = p

\* func (g *Game) spawnFood(), with the two values rand.IntN returned
spawnFood(gm, rx, ry) == [gm EXCEPT !.food = Point(rx, ry)]

\* a move that always drops the last segment
updateSnakeNoGrow(gm, direction, rx, ry) ==
    LET head == gm.snake[1]
        newHead == Point(head.x + direction.x, head.y + direction.y)
    IN  IF isBadCollision(newHead, gm.snake)
        THEN [gm EXCEPT !.gameOver = TRUE]
        ELSE IF newHead = gm.food
        THEN spawnFood([gm EXCEPT !.snake =
                            <<newHead>> \o SubSeq(gm.snake, 1,
                                                  Len(gm.snake) - 1)],
                       rx, ry)
        ELSE [gm EXCEPT !.snake =
                  <<newHead>> \o SubSeq(gm.snake, 1, Len(gm.snake) - 1)]

\* func (g *Game) updateSnake(snake *[]Point, direction Point); snake is
\* &g.snake at the only call
updateSnake(gm, direction, rx, ry) ==
    LET head == gm.snake[1]
        newHead == Point(head.x + direction.x, head.y + direction.y)
    IN  IF isBadCollision(newHead, gm.snake)
        THEN [gm EXCEPT !.gameOver = TRUE]
        ELSE IF newHead = gm.food
        THEN spawnFood([gm EXCEPT !.snake = <<newHead>> \o gm.snake],
                       rx, ry)
        ELSE [gm EXCEPT !.snake =
                  <<newHead>> \o SubSeq(gm.snake, 1, Len(gm.snake) - 1)]

\* the input handling of Update: W, S, A, D in this order of precedence,
\* each refused when the snake moves the opposite way
handleInput(direction, keys) ==
    IF "W" \in keys THEN (IF direction # dirDown THEN dirUp ELSE direction)
    ELSE IF "S" \in keys
    THEN (IF direction # dirUp THEN dirDown ELSE direction)
    ELSE IF "A" \in keys
    THEN (IF direction # dirRight THEN dirLeft ELSE direction)
    ELSE IF "D" \in keys
    THEN (IF direction # dirLeft THEN dirRight ELSE direction)
    ELSE direction

\* func (g *Game) resetGame(), with the two values rand.IntN returned
resetGame(gm, rx, ry) ==
    spawnFood([gm EXCEPT
                 !.snake = << Point(gridCols \div 2,
                                    gridRows \div 2),
                              Point(gridCols \div 2 - 1,
                                    gridRows \div 2) >>,
                 !.direction = Point(1, 0),
                 !.gameOver = FALSE],
              rx, ry)

\* g := &Game{...} in main: food and gameOver keep their zero values
NewGame ==
    [snake |-> << Point(gridCols \div 2,
                        gridRows \div 2),
                  Point(gridCols \div 2 - 1,
                        gridRows \div 2 - 1) >>,
     direction |-> Point(1, 0),
     food |-> ZeroPoint,
     gameOver |-> FALSE]

VARIABLES
    game, \* the Game struct g: snake, direction, food, gameOver
    gh    \* history: started (main has spawned the first food), ticks and
          \* turns (move ticks and direction changes so far), lastMove and
          \* prevMove (the directions used by the latest two move ticks of
          \* the current game, ZeroPoint when there was none)

gameVars == <<game, gh>>

vars == <<regVars, game, gh>>

NoHist == [started |-> FALSE, ticks |-> 0, turns |-> 0,
           lastMove |-> ZeroPoint, prevMove |-> ZeroPoint]

\* ================================================================ start
\* the counter left at the zero value of int
InitZero ==
    /\ userCache = <<>>
    /\ nextID = 0
    /\ cacheMutex = MutexFree
    /\ pc = [p \in Workers |-> "idle"]
    /\ req = [p \in Workers |-> NoReq]
    /\ loc = [p \in Workers |-> NoLoc]
    /\ resp = [p \in Workers |-> NoResp]
    /\ obs = [p \in Workers |-> NoObs]
    /\ nreq = 0
    /\ lockSeq = 0
    /\ issued = <<>>
    /\ returned = {}
    /\ removedIds = {}
    /\ delDone = {}
    /\ lastDelete = {}
    /\ game = NewGame
    /\ gh = NoHist

Init ==
    /\ userCache = <<>>
    /\ nextID = 1
    /\ cacheMutex = MutexFree
    /\ pc = [p \in Workers |-> "idle"]
    /\ req = [p \in Workers |-> NoReq]
    /\ loc = [p \in Workers |-> NoLoc]
    /\ resp = [p \in Workers |-> NoResp]
    /\ obs = [p \in Workers |-> NoObs]
    /\ nreq = 0
    /\ lockSeq = 0
    /\ issued = <<>>
    /\ returned = {}
    /\ removedIds = {}
    /\ delDone = {}
    /\ lastDelete = {}
    /\ game = NewGame
    /\ gh = NoHist

\* ---------------------------------------------------- handleCreateUser
\* the name check skipped: only an undecodable body is rejected
CreateRejectsUndecodable(body) ==
    IF Decode(body).err
    THEN [bad |-> TRUE, msg |-> <<"Invalid request body">>]
    ELSE [bad |-> FALSE, msg |-> <<>>]

\* Decode(&user) fails: 400; user.Name == "": 400
CreateRejects(body) ==
    IF Decode(body).err
    THEN [bad |-> TRUE, msg |-> <<"Invalid request body">>]
    ELSE IF Decode(body).user.Name = ""
    THEN [bad |-> TRUE, msg |-> <<"Name field is required">>]
    ELSE [bad |-> FALSE, msg |-> <<>>]

\* POST /users is routed to handleCreateUser, which decodes and validates
\* the body before it touches the registry
CreateBegin(p) ==
    /\ pc[p] \in {"idle", "done"}
    /\ nreq < MaxRequests
    /\ nreq' = nreq + 1
    /\ \E b \in Bodies :
          /\ req' = [req EXCEPT ![p] = [method |-> "POST", body |-> b,
                                        idStr |-> <<>>]]
          /\ IF CreateRejects(b).bad
             THEN /\ resp' = [resp EXCEPT ![p] =
                                 Reply(StatusBadRequest, CreateRejects(b).msg)]
                  /\ loc' = [loc EXCEPT ![p] = NoLoc]
                  /\ pc' = [pc EXCEPT ![p] = "done"]
             ELSE /\ resp' = [resp EXCEPT ![p] = NoResp]
                  /\ loc' = [loc EXCEPT ![p] = [NoLoc EXCEPT !.user = Decode(b).user]]
                  /\ pc' = [pc EXCEPT ![p] = "c_lock"]
    /\ obs' = [obs EXCEPT ![p] = NoObs]
    /\ UNCHANGED <<shared, cacheMutex, hist>>
    /\ UNCHANGED gameVars

\* the handler taking the lock with RLock() where it needs Lock()
CreateLockShared(p) ==
    /\ pc[p] = "c_lock"
    /\ CanRLock(cacheMutex)
    /\ cacheMutex' = [cacheMutex EXCEPT !.readers = @ \cup {p}]
    /\ obs' = [obs EXCEPT ![p].locked = TRUE, ![p].lockPos = lockSeq + 1]
    /\ lockSeq' = lockSeq + 1
    /\ pc' = [pc EXCEPT ![p] = "c_store"]
    /\ UNCHANGED <<shared, req, loc, resp, nreq,
                   issued, returned, removedIds, delDone, lastDelete>>
    /\ UNCHANGED gameVars

\* cacheMutex.Lock(): the call starts and excludes later lockers
CreateLock(p) ==
    /\ pc[p] = "c_lock"
    /\ CanLock(cacheMutex)
    /\ cacheMutex' = [cacheMutex EXCEPT !.pending = p]
    /\ obs' = [obs EXCEPT ![p].locked = TRUE]
    /\ pc' = [pc EXCEPT ![p] = "c_enter"]
    /\ UNCHANGED <<shared, req, loc, resp, nreq, hist>>
    /\ UNCHANGED gameVars

\* cacheMutex.Lock() returns: the handler holds the lock for writing
CreateEnter(p) ==
    /\ pc[p] = "c_enter"
    /\ CanEnter(cacheMutex, p)
    /\ cacheMutex' = [cacheMutex EXCEPT !.pending = 0, !.writer = p]
    /\ lockSeq' = lockSeq + 1
    /\ obs' = [obs EXCEPT ![p].lockPos = lockSeq + 1,
                          ![p].overlap = \E q \in Workers \ {p} :
                                             pc[q] \in {"c_lock", "c_enter"}]
    /\ pc' = [pc EXCEPT ![p] = "c_store"]
    /\ UNCHANGED <<shared, req, loc, resp, nreq,
                   issued, returned, removedIds, delDone, lastDelete>>
    /\ UNCHANGED gameVars

\* userID := nextID; userCache[userID] = user
CreateStore(p) ==
    /\ pc[p] = "c_store"
    /\ loc' = [loc EXCEPT ![p].userID = nextID]
    /\ userCache' = MapPut(userCache, nextID, loc[p].user)
    /\ issued' = Append(issued, [pos |-> obs[p].lockPos, id |-> nextID,
                                 user |-> loc[p].user])
    /\ lastDelete' = {}
    /\ pc' = [pc EXCEPT ![p] = "c_inc"]
    /\ UNCHANGED <<nextID, cacheMutex, req, resp, obs, nreq,
                   lockSeq, returned, removedIds, delDone>>
    /\ UNCHANGED gameVars

\* the counter advanced twice for one creation
CreateIncTwice(p) ==
    /\ pc[p] = "c_inc"
    /\ nextID' = nextID + 2
    /\ lastDelete' = {}
    /\ pc' = [pc EXCEPT ![p] = "c_unlock"]
    /\ UNCHANGED <<userCache, cacheMutex, req, loc, resp, obs, nreq,
                   lockSeq, issued, returned, removedIds, delDone>>
    /\ UNCHANGED gameVars

\* nextID++
CreateInc(p) ==
    /\ pc[p] = "c_inc"
    /\ nextID' = nextID + 1
    /\ lastDelete' = {}
    /\ pc' = [pc EXCEPT ![p] = "c_unlock"]
    /\ UNCHANGED <<userCache, cacheMutex, req, loc, resp, obs, nreq,
                   lockSeq, issued, returned, removedIds, delDone>>
    /\ UNCHANGED gameVars

\* cacheMutex.Unlock()
CreateUnlock(p) ==
    /\ pc[p] = "c_unlock"
    /\ cacheMutex' = [cacheMutex EXCEPT !.writer = 0]
    /\ pc' = [pc EXCEPT ![p] = "c_respond"]
    /\ UNCHANGED <<shared, req, loc, resp, obs, nreq, hist>>
    /\ UNCHANGED gameVars

\* the response reporting the counter where it should report userID
CreateRespondNext(p) ==
    /\ pc[p] = "c_respond"
    /\ resp' = [resp EXCEPT ![p] =
                   Reply(StatusCreated,
                         <<"User successfully created with ID: ">>
                             \o FormatInt(nextID))]
    /\ returned' = returned \cup {[pos |-> obs[p].lockPos, id |-> nextID,
                                    user |-> loc[p].user]}
    /\ obs' = [obs EXCEPT ![p].passed = (nextID > loc[p].userID + 1)]
    /\ pc' = [pc EXCEPT ![p] = "done"]
    /\ UNCHANGED <<shared, cacheMutex, req, loc, nreq,
                   lockSeq, issued, removedIds, delDone, lastDelete>>
    /\ UNCHANGED gameVars

\* w.WriteHeader(http.StatusCreated); fmt.Fprintf(w, "... ID: %d", userID);
\* the handler returns
CreateRespond(p) ==
    /\ pc[p] = "c_respond"
    /\ resp' = [resp EXCEPT ![p] =
                   Reply(StatusCreated,
                         <<"User successfully created with ID: ">>
                             \o FormatInt(loc[p].userID))]
    /\ returned' = returned \cup {[pos |-> obs[p].lockPos, id |-> loc[p].userID,
                                    user |-> loc[p].user]}
    /\ obs' = [obs EXCEPT ![p].passed = (nextID > loc[p].userID + 1)]
    /\ pc' = [pc EXCEPT ![p] = "done"]
    /\ UNCHANGED <<shared, cacheMutex, req, loc, nreq,
                   lockSeq, issued, removedIds, delDone, lastDelete>>
    /\ UNCHANGED gameVars

\* ------------------------------------------------------- handleGetUser
\* GET /users/{id} is routed to handleGetUser;
\* id, err := strconv.Atoi(r.PathValue("id")); 400 on error
GetBegin(p) ==
    /\ pc[p] \in {"idle", "done"}
    /\ nreq < MaxRequests
    /\ nreq' = nreq + 1
    /\ \E s \in PathIds :
          /\ req' = [req EXCEPT ![p] = [method |-> "GET", body |-> NoReq.body,
                                        idStr |-> s]]
          /\ obs' = [obs EXCEPT ![p] =
                         [NoObs EXCEPT
                            !.retAtStart = {e \in returned :
                                               ~Atoi(s).err /\ e.id = Atoi(s).id},
                            !.delAtStart = {d \in delDone :
                                               ~Atoi(s).err /\ d.id = Atoi(s).id}]]
          /\ IF Atoi(s).err
             THEN /\ resp' = [resp EXCEPT ![p] =
                                 Reply(StatusBadRequest, <<"Invalid user ID format">>)]
                  /\ loc' = [loc EXCEPT ![p] = NoLoc]
                  /\ pc' = [pc EXCEPT ![p] = "done"]
             ELSE /\ resp' = [resp EXCEPT ![p] = NoResp]
                  /\ loc' = [loc EXCEPT ![p] = [NoLoc EXCEPT !.id = Atoi(s).id]]
                  /\ pc' = [pc EXCEPT ![p] = "g_rlock"]
    /\ UNCHANGED <<shared, cacheMutex, hist>>
    /\ UNCHANGED gameVars

\* cacheMutex.RLock()
GetRLock(p) ==
    /\ pc[p] = "g_rlock"
    /\ CanRLock(cacheMutex)
    /\ cacheMutex' = [cacheMutex EXCEPT !.readers = @ \cup {p}]
    /\ obs' = [obs EXCEPT ![p].locked = TRUE]
    /\ pc' = [pc EXCEPT ![p] = "g_read"]
    /\ UNCHANGED <<shared, req, loc, resp, nreq, hist>>
    /\ UNCHANGED gameVars

\* a lookup that stores the zero value under a missing key
GetReadInsert(p) ==
    /\ pc[p] = "g_read"
    /\ LET g == MapGet(userCache, loc[p].id)
       IN  loc' = [loc EXCEPT ![p].user = g.user, ![p].ok = g.ok]
    /\ userCache' = IF loc[p].id \in MapKeys(userCache) THEN userCache
                    ELSE MapPut(userCache, loc[p].id, User(""))
    /\ obs' = [obs EXCEPT ![p].removedAtRead = (loc[p].id \in removedIds),
                          ![p].present = (loc[p].id \in MapKeys(userCache))]
    /\ pc' = [pc EXCEPT ![p] = "g_runlock"]
    /\ UNCHANGED <<nextID, cacheMutex, req, resp, nreq, hist>>
    /\ UNCHANGED gameVars

\* user, ok := userCache[id]
GetRead(p) ==
    /\ pc[p] = "g_read"
    /\ LET g == MapGet(userCache, loc[p].id)
       IN  loc' = [loc EXCEPT ![p].user = g.user, ![p].ok = g.ok]
    /\ obs' = [obs EXCEPT ![p].removedAtRead = (loc[p].id \in removedIds),
                          ![p].present = (loc[p].id \in MapKeys(userCache))]
    /\ pc' = [pc EXCEPT ![p] = "g_runlock"]
    /\ UNCHANGED <<shared, cacheMutex, req, resp, nreq, hist>>
    /\ UNCHANGED gameVars

\* the read lock kept until the handler returns (a deferred RUnlock)
GetRUnlockDeferred(p) ==
    /\ pc[p] = "g_runlock"
    /\ pc' = [pc EXCEPT ![p] = "g_respond"]
    /\ UNCHANGED <<shared, cacheMutex, req, loc, resp, obs, nreq, hist>>
    /\ UNCHANGED gameVars

\* cacheMutex.RUnlock()
GetRUnlock(p) ==
    /\ pc[p] = "g_runlock"
    /\ cacheMutex' = [cacheMutex EXCEPT !.readers = @ \ {p}]
    /\ pc' = [pc EXCEPT ![p] = "g_respond"]
    /\ UNCHANGED <<shared, req, loc, resp, obs, nreq, hist>>
    /\ UNCHANGED gameVars

\* if !ok { 404 }; j, err := json.Marshal(user); 500 on error;
\* w.WriteHeader(http.StatusOK); w.Write(j); the handler returns
GetRespond(p) ==
    /\ pc[p] = "g_respond"
    /\ LET m == Marshal(loc[p].user)
       IN  IF ~loc[p].ok
           THEN /\ resp' = [resp EXCEPT ![p] =
                               Reply(StatusNotFound,
                                     <<"User with ID ">> \o FormatInt(loc[p].id)
                                         \o <<" not found">>)]
                /\ UNCHANGED loc
           ELSE IF m.err
           THEN /\ resp' = [resp EXCEPT ![p] =
                               Reply(StatusInternalServerError,
                                     <<"Error encoding JSON response">>)]
                /\ UNCHANGED loc
           ELSE /\ loc' = [loc EXCEPT ![p].j = m.j]
                /\ resp' = [resp EXCEPT ![p] = Reply(StatusOK, m.j)]
    /\ pc' = [pc EXCEPT ![p] = "done"]
    /\ UNCHANGED <<shared, cacheMutex, req, obs, nreq, hist>>
    /\ UNCHANGED gameVars

\* ---------------------------------------------------- handleDeleteUser
\* DELETE /users/{id} is routed to handleDeleteUser;
\* id, err := strconv.Atoi(r.PathValue("id")); 400 on error
DeleteBegin(p) ==
    /\ pc[p] \in {"idle", "done"}
    /\ nreq < MaxRequests
    /\ nreq' = nreq + 1
    /\ \E s \in PathIds :
          /\ req' = [req EXCEPT ![p] = [method |-> "DELETE", body |-> NoReq.body,
                                        idStr |-> s]]
          /\ IF Atoi(s).err
             THEN /\ resp' = [resp EXCEPT ![p] =
                                 Reply(StatusBadRequest, <<"Invalid user ID format">>)]
                  /\ loc' = [loc EXCEPT ![p] = NoLoc]
                  /\ pc' = [pc EXCEPT ![p] = "done"]
             ELSE /\ resp' = [resp EXCEPT ![p] = NoResp]
                  /\ loc' = [loc EXCEPT ![p] = [NoLoc EXCEPT !.id = Atoi(s).id]]
                  /\ pc' = [pc EXCEPT ![p] = "d_lock"]
    /\ obs' = [obs EXCEPT ![p] = NoObs]
    /\ UNCHANGED <<shared, cacheMutex, hist>>
    /\ UNCHANGED gameVars

\* cacheMutex.Lock(): the call starts and excludes later lockers
DeleteLock(p) ==
    /\ pc[p] = "d_lock"
    /\ CanLock(cacheMutex)
    /\ cacheMutex' = [cacheMutex EXCEPT !.pending = p]
    /\ obs' = [obs EXCEPT ![p].locked = TRUE]
    /\ pc' = [pc EXCEPT ![p] = "d_enter"]
    /\ UNCHANGED <<shared, req, loc, resp, nreq, hist>>
    /\ UNCHANGED gameVars

\* cacheMutex.Lock() returns: the handler holds the lock for writing
DeleteEnter(p) ==
    /\ pc[p] = "d_enter"
    /\ CanEnter(cacheMutex, p)
    /\ cacheMutex' = [cacheMutex EXCEPT !.pending = 0, !.writer = p]
    /\ pc' = [pc EXCEPT ![p] = "d_delete"]
    /\ UNCHANGED <<shared, req, loc, resp, obs, nreq, hist>>
    /\ UNCHANGED gameVars

\* a delete that hands the identifier of the newest record back to the counter
DeleteEntryReclaim(p) ==
    /\ pc[p] = "d_delete"
    /\ userCache' = MapDelete(userCache, loc[p].id)
    /\ nextID' = IF loc[p].id \in MapKeys(userCache) /\ loc[p].id = nextID - 1
                 THEN nextID - 1 ELSE nextID
    /\ removedIds' = removedIds \cup (MapKeys(userCache) \cap {loc[p].id})
    /\ obs' = [obs EXCEPT ![p].belowNext = (loc[p].id < nextID),
                          ![p].existed = (loc[p].id \in MapKeys(userCache)),
                          ![p].repeat = (loc[p].id \in lastDelete)]
    /\ lastDelete' = {loc[p].id}
    /\ pc' = [pc EXCEPT ![p] = "d_unlock"]
    /\ UNCHANGED <<cacheMutex, req, loc, resp, nreq,
                   lockSeq, issued, returned, delDone>>
    /\ UNCHANGED gameVars

\* delete(userCache, id)
DeleteEntry(p) ==
    /\ pc[p] = "d_delete"
    /\ userCache' = MapDelete(userCache, loc[p].id)
    /\ removedIds' = removedIds \cup (MapKeys(userCache) \cap {loc[p].id})
    /\ obs' = [obs EXCEPT ![p].belowNext = (loc[p].id < nextID),
                          ![p].existed = (loc[p].id \in MapKeys(userCache)),
                          ![p].repeat = (loc[p].id \in lastDelete)]
    /\ lastDelete' = {loc[p].id}
    /\ pc' = [pc EXCEPT ![p] = "d_unlock"]
    /\ UNCHANGED <<nextID, cacheMutex, req, loc, resp, nreq,
                   lockSeq, issued, returned, delDone>>
    /\ UNCHANGED gameVars

\* the handler goes on to its response without calling Unlock()
DeleteUnlockSkipped(p) ==
    /\ pc[p] = "d_unlock"
    /\ pc' = [pc EXCEPT ![p] = "d_respond"]
    /\ UNCHANGED <<shared, cacheMutex, req, loc, resp, obs, nreq, hist>>
    /\ UNCHANGED gameVars

\* cacheMutex.Unlock()
DeleteUnlock(p) ==
    /\ pc[p] = "d_unlock"
    /\ cacheMutex' = [cacheMutex EXCEPT !.writer = 0]
    /\ pc' = [pc EXCEPT ![p] = "d_respond"]
    /\ UNCHANGED <<shared, req, loc, resp, obs, nreq, hist>>
    /\ UNCHANGED gameVars

\* a delete that reports a missing key as an error
DeleteRespondMissing(p) ==
    /\ pc[p] = "d_respond"
    /\ resp' = [resp EXCEPT ![p] =
                   IF obs[p].existed THEN Reply(StatusNoContent, <<>>)
                   ELSE Reply(StatusNotFound, <<"not found">>)]
    /\ delDone' = delDone \cup {[id |-> loc[p].id, belowNext |-> obs[p].belowNext]}
    /\ pc' = [pc EXCEPT ![p] = "done"]
    /\ UNCHANGED <<shared, cacheMutex, req, loc, obs, nreq,
                   lockSeq, issued, returned, removedIds, lastDelete>>
    /\ UNCHANGED gameVars

\* w.WriteHeader(http.StatusNoContent); the handler returns
DeleteRespond(p) ==
    /\ pc[p] = "d_respond"
    /\ resp' = [resp EXCEPT ![p] = Reply(StatusNoContent, <<>>)]
    /\ delDone' = delDone \cup {[id |-> loc[p].id, belowNext |-> obs[p].belowNext]}
    /\ pc' = [pc EXCEPT ![p] = "done"]
    /\ UNCHANGED <<shared, cacheMutex, req, loc, obs, nreq,
                   lockSeq, issued, returned, removedIds, lastDelete>>
    /\ UNCHANGED gameVars

\* ------------------------------------------------------- specification
Next ==
    \E p \in Workers :
        \/ CreateBegin(p)
        \/ CreateLock(p)
        \/ CreateEnter(p)
        \/ CreateStore(p)
        \/ CreateInc(p)
        \/ CreateUnlock(p)
        \/ CreateRespond(p)
        \/ GetBegin(p)
        \/ GetRLock(p)
        \/ GetRead(p)
        \/ GetRUnlock(p)
        \/ GetRespond(p)
        \/ DeleteBegin(p)
        \/ DeleteLock(p)
        \/ DeleteEnter(p)
        \/ DeleteEntry(p)
        \/ DeleteUnlock(p)
        \/ DeleteRespond(p)

Spec == Init /\ [][Next]_vars

\* the steps of a handler that worker p is running (every step after the
\* request has been taken up)
HandlerStep(p) ==
    \/ CreateLock(p) \/ CreateEnter(p) \/ CreateStore(p) \/ CreateInc(p)
    \/ CreateUnlock(p) \/ CreateRespond(p)
    \/ GetRLock(p) \/ GetRead(p) \/ GetRUnlock(p) \/ GetRespond(p)
    \/ DeleteLock(p) \/ DeleteEnter(p) \/ DeleteEntry(p)
    \/ DeleteUnlock(p) \/ DeleteRespond(p)

\* the Go scheduler runs every runnable goroutine: a handler whose next
\* step stays possible takes it; the arrival of requests is not forced
Fairness == \A p \in Workers : WF_vars(HandlerStep(p))

\* the same handlers serving at most FairRequests requests
FairNext ==
    \E p \in Workers :
        \/ /\ nreq < FairRequests
           /\ (CreateBegin(p) \/ GetBegin(p) \/ DeleteBegin(p))
        \/ HandlerStep(p)

FairSpec == Init /\ [][FairNext]_vars /\ Fairness

\* ------------------------------------------------------ the game loop
\* main, after the Game struct is built: g.spawnFood()
MainSpawnFood ==
    /\ ~gh.started
    /\ \E rx \in FoodXs, ry \in FoodYs : game' = spawnFood(game, rx, ry)
    /\ gh' = [gh EXCEPT !.started = TRUE]
    /\ UNCHANGED regVars

\* Update while the game is over: Enter or Space restarts it, any other
\* input leaves it as it is
UpdateGameOver(keys) ==
    /\ gh.started
    /\ game.gameOver
    /\ IF "Enter" \in keys \/ "Space" \in keys
       THEN /\ \E rx \in FoodXs, ry \in FoodYs :
                 game' = resetGame(game, rx, ry)
            /\ gh' = [gh EXCEPT !.lastMove = ZeroPoint,
                                !.prevMove = ZeroPoint]
       ELSE UNCHANGED gameVars
    /\ UNCHANGED regVars

\* Update on a frame that comes less than gameSpeed after the last move:
\* the input is handled and the snake stays where it is
UpdateSkip(keys) ==
    /\ gh.started
    /\ ~game.gameOver
    /\ LET d == handleInput(game.direction, keys)
       IN  /\ d # game.direction => gh.turns < MaxTurns
           /\ game' = [game EXCEPT !.direction = d]
           /\ gh' = [gh EXCEPT !.turns = IF d # game.direction
                                         THEN gh.turns + 1 ELSE gh.turns]
    /\ UNCHANGED regVars

\* Update on a frame at least gameSpeed after the last move (a move tick):
\* the input is handled, then g.updateSnake(&g.snake, g.direction)
UpdateMove(keys) ==
    /\ gh.started
    /\ ~game.gameOver
    /\ gh.ticks < MaxTicks
    /\ LET d == handleInput(game.direction, keys)
       IN  /\ d # game.direction => gh.turns < MaxTurns
           /\ \E rx \in FoodXs, ry \in FoodYs :
                game' = updateSnake([game EXCEPT !.direction = d], d, rx, ry)
           /\ gh' = [gh EXCEPT !.turns = IF d # game.direction
                                         THEN gh.turns + 1 ELSE gh.turns,
                               !.ticks = gh.ticks + 1,
                               !.prevMove = gh.lastMove,
                               !.lastMove = d]
    /\ UNCHANGED regVars

SnakeNext ==
    \/ MainSpawnFood
    \/ \E keys \in KeySets :
         \/ UpdateGameOver(keys)
         \/ UpdateSkip(keys)
         \/ UpdateMove(keys)

SnakeSpec == Init /\ [][SnakeNext]_vars

\* ============================================================ properties
WriteSection == {"c_store", "c_inc", "c_unlock", "d_delete", "d_unlock"}

ReadSection == {"g_read", "g_runlock"}

Quiescent == \A p \in Workers : pc[p] \in {"idle", "done"}

IssuedIds == { issued[i].id : i \in 1..Len(issued) }

\* the request cannot pass the validation of its handler
InvalidReq(r) ==
    \/ r.method = "POST" /\ (Decode(r.body).err \/ Decode(r.body).user.Name = "")
    \/ r.method \in {"GET", "DELETE"} /\ Atoi(r.idStr).err

\* C1: no two creations are assigned the same identifier, however the
\* handlers interleave.
C1_Uniqueness ==
    \A i, j \in 1..Len(issued) : i # j => issued[i].id # issued[j].id

\* two creations in flight at once, both past the critical section
C1_Witness ==
    \E p, q \in Workers :
        /\ p # q
        /\ pc[p] = "c_respond" /\ pc[q] = "c_respond"
        /\ loc[p].userID # loc[q].userID

\* C2: once every request has completed, nextID has advanced by exactly the
\* number of successful creations and the table holds exactly that many
\* entries, less the ones deletes removed (none when no delete ran).
C2_ConcurrencySafety ==
    Quiescent =>
        /\ nextID = 1 + Cardinality(returned)
        /\ Cardinality(MapKeys(userCache)) + Cardinality(removedIds)
               = Cardinality(returned)

\* two creations that overlapped (one waited for the lock the other held)
\* have completed and no delete ran
C2_Witness ==
    /\ Quiescent
    /\ removedIds = {} /\ delDone = {}
    /\ \E p, q \in Workers :
           /\ p # q
           /\ resp[p].status = StatusCreated /\ resp[q].status = StatusCreated
           /\ obs[p].overlap
    /\ Cardinality(MapKeys(userCache)) = 2
    /\ nextID = 3

\* C3: whenever a reader is inside its read section, or no writer is inside
\* a write section, the record of nextID-1 has been inserted (it is present
\* unless a delete removed it) and no key at or above nextID is present.
C3_AtomicCreate ==
    ((\E p \in Workers : pc[p] \in ReadSection)
        \/ (\A p \in Workers : pc[p] \notin WriteSection))
    => /\ nextID > 1 =>
              (nextID - 1 \in MapKeys(userCache) \/ nextID - 1 \in removedIds)
       /\ \A k \in MapKeys(userCache) : k < nextID

\* a reader looks at the registry right after a creation
C3_Witness ==
    \E p \in Workers :
        /\ pc[p] = "g_read"
        /\ nextID > 1
        /\ nextID - 1 \in MapKeys(userCache)
        /\ \E q \in Workers : pc[q] = "c_respond"

\* C4: at most one handler is inside a write section; while one is, no Get
\* is inside its read section; the record a Get read is one that a creation
\* stored whole under that key.
C4_MutualExclusion ==
    /\ Cardinality({p \in Workers : pc[p] \in WriteSection}) <= 1
    /\ (\E p \in Workers : pc[p] \in WriteSection)
           => \A q \in Workers : pc[q] \notin ReadSection
    /\ \A p \in Workers :
           (pc[p] \in {"g_runlock", "g_respond"} /\ loc[p].ok)
           => \E i \in 1..Len(issued) :
                  issued[i].id = loc[p].id /\ issued[i].user = loc[p].user

\* a writer is inside its section while another handler waits for the lock
C4_Witness ==
    \E p, q \in Workers :
        /\ pc[p] \in WriteSection
        /\ pc[q] \in {"g_rlock", "c_lock", "d_lock"}

\* C5: identifiers are assigned in the order in which the creations acquire
\* the lock.
C5_Monotonicity ==
    \A i, j \in 1..Len(issued) :
        issued[i].pos < issued[j].pos => issued[i].id < issued[j].id

\* the creation that took the lock second has answered before the first one,
\* and holds the higher identifier
C5_Witness ==
    \E p \in Workers : \E e \in returned :
        /\ pc[p] = "c_respond"
        /\ obs[p].lockPos < e.pos
        /\ loc[p].userID < e.id

\* C6: a Get(k) that starts after a creation returned k for record r answers
\* 200 with r, unless a delete had removed k when the Get read the map.
C6_ReadAfterWrite ==
    \A p \in Workers :
        (pc[p] = "done" /\ req[p].method = "GET")
        => \A e \in obs[p].retAtStart :
               (~Atoi(req[p].idStr).err
                    /\ e.id = Atoi(req[p].idStr).id
                    /\ ~obs[p].removedAtRead)
               => resp[p] = Reply(StatusOK, Marshal(e.user).j)

\* a Get of a returned identifier has answered 200 after a second record was
\* created
C6_Witness ==
    \E p \in Workers :
        /\ pc[p] = "done" /\ req[p].method = "GET"
        /\ resp[p].status = StatusOK
        /\ \E e \in obs[p].retAtStart : e.id = loc[p].id
        /\ nextID > 2

\* C7: once a delete has removed key k, k is never a key of the table again
\* and no later creation is assigned k.
C7_NoResurrection ==
    [][ /\ \A k \in removedIds' : k \notin MapKeys(userCache')
        /\ Len(issued') > Len(issued)
               => issued'[Len(issued')].id \notin removedIds ]_vars

\* a creation is assigned a fresh identifier after the record of a lower one
\* was removed
C7_Witness ==
    \E p \in Workers :
        /\ pc[p] = "c_inc"
        /\ removedIds # {}
        /\ \A k \in removedIds : k < loc[p].userID

\* C8 as stated: a Get(k) that starts after any Delete(k) completed answers
\* 404, also when k had not been issued when the delete ran.
C8_DeletionPermanentAnyKey ==
    \A p \in Workers :
        (pc[p] = "done" /\ req[p].method = "GET" /\ ~Atoi(req[p].idStr).err)
        => ((\E d \in obs[p].delAtStart : d.id = loc[p].id)
               => resp[p].status = StatusNotFound)

\* C8, amended: a Get(k) that starts after a Delete(k) completed answers 404,
\* for every integer k that was below nextID when that delete ran (an
\* identifier already issued, or one that is never issued).
C8_DeletionPermanent ==
    \A p \in Workers :
        (pc[p] = "done" /\ req[p].method = "GET" /\ ~Atoi(req[p].idStr).err)
        => ((\E d \in obs[p].delAtStart : d.id = loc[p].id /\ d.belowNext)
               => resp[p].status = StatusNotFound)

\* a Get of a key that a completed delete had removed has answered 404
C8_Witness ==
    \E p \in Workers :
        /\ pc[p] = "done" /\ req[p].method = "GET"
        /\ resp[p].status = StatusNotFound
        /\ loc[p].id \in removedIds
        /\ \E d \in obs[p].delAtStart : d.id = loc[p].id /\ d.belowNext

\* C9: a Delete(k) that runs right after a Delete(k), with no write to the
\* table or the counter in between, changes neither of them, and every
\* delete of an integer key reports 204.
C9_IdempotentDelete ==
    /\ [](\A p \in Workers :
              (pc[p] = "done" /\ req[p].method = "DELETE"
                   /\ ~Atoi(req[p].idStr).err)
              => resp[p] = Reply(StatusNoContent, <<>>))
    /\ [][\A p \in Workers :
              (pc[p] = "d_delete" /\ pc'[p] = "d_unlock"
                   /\ loc[p].id \in lastDelete)
              => UNCHANGED <<userCache, nextID>>]_vars

\* the second of two deletes of a key in a row, the first of which removed
\* a record, has reported 204
C9_Witness ==
    \E p \in Workers :
        /\ pc[p] = "done" /\ req[p].method = "DELETE"
        /\ obs[p].repeat
        /\ loc[p].id \in removedIds
        /\ resp[p].status = StatusNoContent

\* C10: a request that fails validation never touches the lock, changes
\* neither the table nor nextID by any of its steps, and is answered 400.
C10_ValidationFirst ==
    /\ [](\A p \in Workers :
              InvalidReq(req[p])
              => /\ ~obs[p].locked
                 /\ cacheMutex.writer # p /\ cacheMutex.pending # p
                 /\ p \notin cacheMutex.readers
                 /\ pc[p] = "done" /\ resp[p].status = StatusBadRequest)
    /\ [][\A p \in Workers :
              (InvalidReq(req'[p]) /\ req'[p] # req[p])
              => UNCHANGED <<userCache, nextID, cacheMutex>>]_vars

\* a POST without a name has been answered 400 on a registry that holds a
\* record
C10_Witness ==
    \E p \in Workers :
        /\ pc[p] = "done" /\ req[p].method = "POST"
        /\ ~Decode(req[p].body).err
        /\ resp[p].status = StatusBadRequest
        /\ MapKeys(userCache) # {}

\* a step taken by worker p (its position, request, locals, response or
\* observations change)
StepOf(p) ==
    <<pc[p], req[p], loc[p], resp[p], obs[p]>>' #
        <<pc[p], req[p], loc[p], resp[p], obs[p]>>

CreatedText == <<"User successfully created with ID: ">>

\* C11 (create path): every POST /users with a decodable body and a
\* non-empty name is answered 201; its store step adds exactly one entry to
\* the table, under a key that was not there, holding the submitted record,
\* and leaves every other entry alone; no other step of the handler touches
\* the table; and the identifier printed in the response is the key of that
\* store step, whatever other creates ran before the response was written.
C11_CreatePath ==
    /\ [](\A p \in Workers :
            (pc[p] = "done" /\ req[p].method = "POST" /\ ~InvalidReq(req[p]))
            => /\ resp[p].status = StatusCreated
               /\ \E i \in 1..Len(issued) :
                    /\ issued[i].pos = obs[p].lockPos
                    /\ issued[i].user = Decode(req[p].body).user
                    /\ resp[p].body = CreatedText \o FormatInt(issued[i].id))
    /\ [][\A p \in Workers :
            /\ (pc[p] = "c_store" /\ pc'[p] = "c_inc")
               => \E k \in MapKeys(userCache') :
                    /\ k = loc'[p].userID
                    /\ k \notin MapKeys(userCache)
                    /\ MapKeys(userCache') = MapKeys(userCache) \cup {k}
                    /\ userCache'[k] = Decode(req[p].body).user
                    /\ \A x \in MapKeys(userCache) : userCache'[x] = userCache[x]
            /\ (StepOf(p) /\ pc[p] \in {"c_lock", "c_enter", "c_inc",
                                        "c_unlock", "c_respond"})
               => userCache' = userCache]_vars

\* C11 witness: a create answered 201 after another create had been assigned
\* the next identifier between its unlock and its response.
C11_Witness ==
    \E p \in Workers :
        /\ pc[p] = "done"
        /\ req[p].method = "POST"
        /\ resp[p].status = StatusCreated
        /\ obs[p].passed
        /\ loc[p].userID \in MapKeys(userCache)

\* C12 (get path): a finished GET /users/{id} is answered 400 when {id} is
\* not an integer; otherwise 200 with the record stored under id when id was
\* a key of the table at the read, and 404 when it was not (zero, negative
\* and never-issued identifiers included); a record is never returned for a
\* key that was missing at the read.
C12_GetPath ==
    \A p \in Workers :
        (pc[p] = "done" /\ req[p].method = "GET")
        => IF Atoi(req[p].idStr).err
             THEN resp[p].status = StatusBadRequest
             ELSE IF obs[p].present
               THEN /\ resp[p].status = StatusOK
                    /\ \E i \in 1..Len(issued) :
                         /\ issued[i].id = Atoi(req[p].idStr).id
                         /\ resp[p].body = Marshal(issued[i].user).j
               ELSE /\ resp[p].status = StatusNotFound
                    /\ resp[p].body =
                         <<"User with ID ">>
                             \o FormatInt(Atoi(req[p].idStr).id)
                             \o <<" not found">>

\* C12 witness: with a non-empty table, one GET was answered 404 for an
\* integer that is not a key and another GET was answered 200.
C12_Witness ==
    \E p, q \in Workers :
        /\ pc[p] = "done" /\ req[p].method = "GET"
        /\ ~Atoi(req[p].idStr).err
        /\ resp[p].status = StatusNotFound
        /\ pc[q] = "done" /\ req[q].method = "GET"
        /\ resp[q].status = StatusOK

\* C13 (delete path): a finished DELETE /users/{id} is answered 204 with an
\* empty body for every integer id, whether or not the key existed, and 400
\* only when {id} is not an integer; it has no other outcome.
C13_DeletePath ==
    \A p \in Workers :
        (pc[p] = "done" /\ req[p].method = "DELETE")
        => IF Atoi(req[p].idStr).err
             THEN resp[p].status = StatusBadRequest
             ELSE resp[p] = Reply(StatusNoContent, <<>>)

\* C13 witness: a delete of an integer that was not a key was answered 204
\* while the table held other entries.
C13_Witness ==
    \E p \in Workers :
        /\ pc[p] = "done" /\ req[p].method = "DELETE"
        /\ ~Atoi(req[p].idStr).err
        /\ ~obs[p].existed
        /\ resp[p].status = StatusNoContent
        /\ MapKeys(userCache) # {}

\* C14 (frame of delete): the step of Delete(k) that runs delete(userCache,
\* k) removes k from the keys of the table when it is there and changes
\* nothing else: every other key stays and keeps its record, and nextID is
\* unchanged; the other steps of the handler change neither.
C14_DeleteFrame ==
    [][\A p \in Workers :
         /\ (pc[p] = "d_delete" /\ pc'[p] = "d_unlock")
            => /\ MapKeys(userCache') = MapKeys(userCache) \ {loc[p].id}
               /\ \A x \in MapKeys(userCache') : userCache'[x] = userCache[x]
               /\ nextID' = nextID
         /\ (StepOf(p) /\ pc[p] \in {"d_lock", "d_enter", "d_unlock",
                                     "d_respond"})
            => UNCHANGED <<userCache, nextID>>]_vars

\* C14 witness: a delete has just removed a key that was present and the
\* table still holds another entry.
C14_Witness ==
    \E p \in Workers :
        /\ pc[p] = "d_unlock"
        /\ obs[p].existed
        /\ loc[p].id \notin MapKeys(userCache)
        /\ MapKeys(userCache) # {}

\* the steps of handleGetUser taken by worker p, the first one included
GetStep(p) ==
    /\ StepOf(p)
    /\ \/ pc[p] \in {"g_rlock", "g_read", "g_runlock", "g_respond"}
       \/ pc[p] \in {"idle", "done"} /\ req'[p].method = "GET"

\* C15 (get is read-only): no step of a GET /users/{id}, whatever status it
\* ends in, changes the table or nextID.
C15_GetReadOnly ==
    [][\A p \in Workers : GetStep(p) => UNCHANGED <<userCache, nextID>>]_vars

\* C15 witness: gets have ended in 200, in 404 and in 400 over a non-empty
\* table.
C15_Witness ==
    /\ MapKeys(userCache) # {}
    /\ \E p, q \in Workers :
        /\ pc[p] = "done" /\ req[p].method = "GET"
        /\ resp[p].status = StatusOK
        /\ pc[q] = "done" /\ req[q].method = "GET"
        /\ resp[q].status \in {StatusNotFound, StatusBadRequest}

\* C16 (allocator state): nextID is 1 plus the number of creates that have
\* passed their increment (so it is 1 initially and moves by one per
\* successful create); a step changes nextID only if it is the increment of
\* a create, and then by exactly one, so nextID never decreases.
C16_Allocator ==
    /\ [](nextID = 1 + Len(issued)
                     - Cardinality({p \in Workers : pc[p] = "c_inc"}))
    /\ [][/\ nextID' >= nextID
          /\ nextID' # nextID
             => /\ nextID' = nextID + 1
                /\ \E p \in Workers : pc[p] = "c_inc" /\ pc'[p] = "c_unlock"
          /\ \A p \in Workers :
               (pc[p] = "c_inc" /\ pc'[p] = "c_unlock")
               => nextID' = nextID + 1]_vars

\* C16 witness: two creates have succeeded, a finished delete has removed
\* one of their records, and nextID is still 3.
C16_Witness ==
    /\ nextID = 3
    /\ removedIds # {}
    /\ \E p \in Workers :
        /\ pc[p] = "done" /\ req[p].method = "DELETE"
        /\ obs[p].existed

\* C17 (keys are assigned identifiers): in every reachable state every key
\* of the table is an identifier that a create took from the allocator, and
\* is at least 1.
C17_KeysAssigned ==
    \A k \in MapKeys(userCache) : k \in IssuedIds /\ k >= 1

\* C17 witness: the table is non-empty after requests that named a negative
\* identifier and a never-issued identifier have been served.
C17_Witness ==
    /\ MapKeys(userCache) # {}
    /\ \E p, q \in Workers :
        /\ pc[p] = "done" /\ req[p].method \in {"GET", "DELETE"}
        /\ ~Atoi(req[p].idStr).err /\ loc[p].id < 1
        /\ pc[q] = "done" /\ req[q].method \in {"GET", "DELETE"}
        /\ ~Atoi(req[q].idStr).err /\ loc[q].id >= nextID

\* C18 (reported identifiers stay below nextID): in every reachable state
\* nextID is strictly greater than every identifier a create has reported
\* in a response, deleted ones included.
C18_ReportedBelowNext ==
    \A e \in returned : e.id < nextID

\* C18 witness: an identifier was reported by a create and its record has
\* since been deleted.
C18_Witness ==
    \E e \in returned :
        /\ e.id \in removedIds
        /\ e.id \notin MapKeys(userCache)

\* the handlers that have called Lock() and not yet returned from Unlock()
WriterPcs == WriteSection \cup {"c_enter", "d_enter"}

\* C19 (parallel reads): the holders of the read lock are exactly the gets
\* between RLock and RUnlock, any number of them; and whenever no handler
\* is between Lock() and Unlock(), every get waiting at RLock() can take the
\* lock, however many gets hold it.
C19_ParallelReads ==
    /\ cacheMutex.readers = {p \in Workers : pc[p] \in ReadSection}
    /\ (\A w \in Workers : pc[w] \notin WriterPcs)
       => \A q \in Workers : pc[q] = "g_rlock" => ENABLED GetRLock(q)

\* C19 witness: two gets are inside the read section at the same time.
C19_Witness ==
    \E p, q \in Workers :
        /\ p # q
        /\ pc[p] \in ReadSection
        /\ pc[q] \in ReadSection
        /\ {p, q} \subseteq cacheMutex.readers

\* the positions at which a handler decodes, validates, parses, marshals or
\* writes a response, or is between requests
OutsidePcs ==
    {"idle", "done", "c_lock", "g_rlock", "d_lock",
     "c_respond", "g_respond", "d_respond"}

\* C20 (minimal lock span): a handler that is decoding, validating,
\* marshalling or writing a response holds neither the read lock nor the
\* write lock and has no Lock() call pending; the write lock is held exactly
\* across the map and counter mutation and the read lock exactly across the
\* map read; a handler about to call Lock() or RLock() holds nothing.
C20_MinimalLockSpan ==
    \A p \in Workers :
        /\ pc[p] \in OutsidePcs
           => /\ cacheMutex.writer # p
              /\ cacheMutex.pending # p
              /\ p \notin cacheMutex.readers
        /\ cacheMutex.writer = p <=> pc[p] \in WriteSection
        /\ p \in cacheMutex.readers <=> pc[p] \in ReadSection
        /\ cacheMutex.pending = p <=> pc[p] \in {"c_enter", "d_enter"}

\* C20 witness: a get that found its record is about to marshal it and
\* write the response while another handler holds the write lock.
C20_Witness ==
    \E p, q \in Workers :
        /\ pc[p] = "g_respond"
        /\ loc[p].ok
        /\ p \notin cacheMutex.readers
        /\ pc[q] \in WriteSection
        /\ cacheMutex.writer = q

\* a request of worker p has started and has not been answered yet
InFlight(p) == pc[p] \notin {"idle", "done"}

C23_NoGaps ==
    /\ \A i \in 1..Len(issued) :
         /\ issued[i].id = i
         /\ \A j \in 1..Len(issued) : i < j => issued[i].pos < issued[j].pos
    /\ (\A p \in Workers : pc[p] # "c_inc") => IssuedIds = 1..(nextID - 1)

\* C23 witness: two creates were assigned 1 and 2 although the record of
\* the first was deleted before the second one stored its record.
C23_Witness ==
    /\ Len(issued) = 2
    /\ issued[1].id \in removedIds
    /\ lastDelete = {}
    /\ 2 \in MapKeys(userCache)
    /\ nextID = 3

\* C24 (records are immutable): every record in the table is the one
\* submitted to the create that was assigned its key, and no step changes
\* the record of a key that stays in the table.
C24_RecordImmutable ==
    /\ [](\A k \in MapKeys(userCache) :
            \E i \in 1..Len(issued) :
                issued[i].id = k /\ issued[i].user = userCache[k])
    /\ [][\A k \in MapKeys(userCache) \cap MapKeys(userCache') :
            userCache'[k] = userCache[k]]_vars

\* C24 witness: a get found the record of key 1 after a later create had
\* stored another record under key 2.
C24_Witness ==
    \E p \in Workers :
        /\ pc[p] = "done" /\ req[p].method = "GET"
        /\ resp[p].status = StatusOK
        /\ loc[p].id = 1
        /\ 2 \in MapKeys(userCache)
        /\ userCache[2] # userCache[1]
        /\ resp[p].body = Marshal(userCache[1]).j

\* C25 (the lock is released): in every state in which no request is in
\* flight cacheMutex is free: no writer, no announced writer, no reader.
C25_LockReleased ==
    Quiescent => cacheMutex = MutexFree

\* C25 witness: no request is in flight after a create, a get or a delete
\* that took the lock has returned.
C25_Witness ==
    /\ Quiescent
    /\ \E p \in Workers : pc[p] = "done" /\ obs[p].locked

\* ------------------------------------------------------------ snake game
\* the step is a move tick
MoveTick == gh'.ticks = gh.ticks + 1

\* the cell the head moves to in a move tick: head + direction, the
\* direction being the one in force after the frame's input was handled
NewHead == Point(game.snake[1].x + game'.direction.x,
                 game.snake[1].y + game'.direction.y)

OutsideGrid(p) == p.x < 0 \/ p.y < 0 \/ p.x >= 32 \/ p.y >= 24

OnSnake(p) == \E i \in 1..Len(game.snake) : game.snake[i] = p

\* C26 (collision): a move tick sets gameOver exactly when the new head is
\* outside the 32x24 grid or on a cell of the snake, the tail included; it
\* then leaves the snake and the food unchanged, and otherwise the new head
\* is segment 0 of the snake.
C26_Collision ==
    [][MoveTick =>
         /\ game'.gameOver <=> (OutsideGrid(NewHead) \/ OnSnake(NewHead))
         /\ game'.gameOver
            => game'.snake = game.snake /\ game'.food = game.food
         /\ ~game'.gameOver => game'.snake[1] = NewHead]_vars

\* C26 witness: a game ended on the wall, the head being on the edge of
\* the grid and the snake moving outwards.
C26_Witness ==
    /\ game.gameOver
    /\ game.snake[1].y = 0
    /\ game.direction = dirUp
    /\ gh.lastMove = dirUp

\* C27 (growth): on a move tick that does not end the game the snake is the
\* new head followed by all its previous segments, one longer, when the new
\* head is the food cell (and the food is then a cell of the grid drawn
\* anew), and the new head followed by all previous segments but the last,
\* as long as before, when it is not (the food then stays).
C27_Growth ==
    [][(MoveTick /\ ~game'.gameOver) =>
         IF NewHead = game.food
         THEN /\ game'.snake = <<NewHead>> \o game.snake
              /\ Len(game'.snake) = Len(game.snake) + 1
              /\ ~OutsideGrid(game'.food)
         ELSE /\ game'.snake =
                    <<NewHead>> \o SubSeq(game.snake, 1, Len(game.snake) - 1)
              /\ Len(game'.snake) = Len(game.snake)
              /\ game'.food = game.food]_vars

\* C27 witness: the snake has eaten twice and has also moved without eating.
C27_Witness ==
    /\ ~game.gameOver
    /\ Len(game.snake) = 4
    /\ gh.ticks > 2
    /\ gh.prevMove # ZeroPoint

\* C28 (no reversal): the direction used by a move tick is never the exact
\* opposite of the direction used by the previous move tick of the game.
C28_NoReversal ==
    gh.prevMove # ZeroPoint
    => gh.lastMove # Point(0 - gh.prevMove.x, 0 - gh.prevMove.y)

====
